---- MODULE Spec2Model ----
(***************************************************************************)
(* Model of upload_to_dune.py: incremental fetch of end-of-day prices from *)
(* MarketStack, CSV cache, forward-fill of missing dates, upload to Dune.  *)
(*                                                                         *)
(* Dates are day numbers (0 is START_DATE, 2025-01-01).  A DataFrame is    *)
(* the sequence of its rows, a row is [date, symbol, close].               *)
(***************************************************************************)
EXTENDS Integers, Sequences, FiniteSets, TLC

\* ------------------------------------------------------------------ bounds
\* Last calendar day of the model.
MaxDay == 2
\* Longest frame the reconciler is applied to in SpecFill.
MaxRows == 3
\* Most records the market-data source holds.
MaxSrc == 3
\* Most rows of the Dune query result.
MaxDune == 1
\* Runs of the script in one behaviour.
MaxRuns == 2
\* Most rows of the Dune query result when the resolver is checked on its own.
MaxRemote == 5

\* --------------------------------------------------------------- constants
\* START_DATE = "2025-01-01", as a day number.
START_DATE == 0
\* The missing value pandas puts in "close" where the left merge finds no row.
NaN == -1

\* batch_size=100 and limit = 1000, cut to the model's size.
batch_size == 1
limit == 2
\* The source stamps a record with a time, "2025-01-02T00:00:00+0000":
\* midnight of its day, counted in half days.
TicksPerDay == 2

\* manual_symbols, cut to one symbol.
manual_symbols == <<"B">>

Symbols == {"A", "B"}
Closes == {1, 2}
Days == 0..MaxDay

Rows == [date : Days, symbol : Symbols, close : Closes]
\* Every frame of at most n rows.
Frames(n) == UNION {[1..k -> Rows] : k \in 0..n}

Range(s) == {s[k] : k \in 1..Len(s)}

\* -------------------------------------------------------- fill_missing_dates
\* df[df["symbol"] == symbol]
SelectSymbol(df, symbol) ==
  LET Test(r) == r.symbol = symbol IN SelectSeq(df, Test)

\* One row put into a frame sorted by date, after the rows of the same date.
RECURSIVE InsertByDate(_, _)
InsertByDate(sorted, r) ==
  IF sorted = <<>> THEN <<r>>
  ELSE IF sorted[Len(sorted)].date <= r.date THEN Append(sorted, r)
  ELSE Append(InsertByDate(SubSeq(sorted, 1, Len(sorted) - 1), r), sorted[Len(sorted)])

\* .sort_values("date"): rows of one date keep their order (for frames this
\* small numpy's sort is an insertion sort).
RECURSIVE sort_values(_)
sort_values(df) ==
  IF df = <<>> THEN <<>>
  ELSE InsertByDate(sort_values(SubSeq(df, 1, Len(df) - 1)), df[Len(df)])

\* symbol_df["date"].min()
MinDate(df) == CHOOSE d \in {r.date : r \in Range(df)} : \A r \in Range(df) : d <= r.date

\* date_range gone wrong: the first day left out.
date_range_late(first_date, end_date) ==
  IF first_date + 1 > end_date THEN <<>>
  ELSE [k \in 1..(end_date - first_date) |-> first_date + k]

\* date_range gone wrong: the end day left out.
date_range_short(first_date, end_date) ==
  IF first_date > end_date - 1 THEN <<>>
  ELSE [k \in 1..(end_date - first_date) |-> first_date + k - 1]

\* pd.date_range(first_date, end_date, freq="D").date: empty when first > end.
date_range(first_date, end_date) ==
  IF first_date > end_date THEN <<>>
  ELSE [k \in 1..(end_date - first_date + 1) |-> first_date + k - 1]

\* full_df.merge(symbol_df, on=["date", "symbol"], how="left") with full_df the
\* product of all_days and [symbol]: per day, every row of symbol_df of that
\* day in order, or one row with a missing close.
RECURSIVE merge_left(_, _, _)
merge_left(all_days, symbol, symbol_df) ==
  IF all_days = <<>> THEN <<>>
  ELSE LET day == all_days[1]
           OnDay(r) == r.date = day
           hits == SelectSeq(symbol_df, OnDay)
       IN (IF hits = <<>> THEN <<[date |-> day, symbol |-> symbol, close |-> NaN]>>
           ELSE hits)
          \o merge_left(Tail(all_days), symbol, symbol_df)

\* ffill gone wrong: a missing close takes the first close of the frame, not
\* the nearest above.
RECURSIVE ffill_from_first(_, _)
ffill_from_first(rows, last) ==
  IF rows = <<>> THEN <<>>
  ELSE LET c == IF rows[1].close = NaN THEN last ELSE rows[1].close
       IN <<[rows[1] EXCEPT !.close = c]>>
          \o ffill_from_first(Tail(rows), IF last = NaN THEN c ELSE last)

\* groupby("symbol")["close"].ffill(): a missing close takes the close of the
\* nearest row above that has one; last is that close (NaN while there is none).
RECURSIVE ffill_from(_, _)
ffill_from(rows, last) ==
  IF rows = <<>> THEN <<>>
  ELSE LET c == IF rows[1].close = NaN THEN last ELSE rows[1].close
       IN <<[rows[1] EXCEPT !.close = c]>> \o ffill_from(Tail(rows), c)

ffill(rows) == ffill_from(rows, NaN)

\* full_df.dropna(subset=["close"])
dropna(rows) ==
  LET HasClose(r) == r.close # NaN IN SelectSeq(rows, HasClose)

\* The loop body gone wrong: the days start at START_DATE and a day before
\* the first price takes the first price.
fill_symbol_backfill(df, symbol, end_date) ==
  LET symbol_df == sort_values(SelectSymbol(df, symbol))
  IN IF symbol_df = <<>> THEN <<>>
     ELSE ffill_from(merge_left(date_range(START_DATE, end_date), symbol, symbol_df),
                     symbol_df[1].close)

\* The body of the loop for one symbol: the rows it appends to all_filled
\* (nothing when the symbol has no row).
fill_symbol(df, symbol, end_date) ==
  LET symbol_df == sort_values(SelectSymbol(df, symbol))
  IN IF symbol_df = <<>> THEN <<>>
     ELSE dropna(ffill(merge_left(date_range(MinDate(symbol_df), end_date),
                                  symbol, symbol_df)))

\* fill_missing_dates(df, symbols) run on UTC date end_date: pd.concat of the
\* filled frames in the order of symbols.
RECURSIVE fill_missing_dates(_, _, _)
fill_missing_dates(df, symbols, end_date) ==
  IF symbols = <<>> THEN <<>>
  ELSE fill_symbol(df, symbols[1], end_date)
       \o fill_missing_dates(df, Tail(symbols), end_date)

\* ------------------------------------------------------------------- state
VARIABLES
  pc,           \* position of the run
  runs,         \* runs started so far
  today,        \* datetime.now(timezone.utc).date()
  DUNE_API_KEY, MARKETSTACK_API_KEY,  \* whether the environment sets them
  db,           \* the records the market-data source holds
  cache_file,   \* results.csv: whether it exists, and its rows
  cache0,       \* results.csv as it was when the run started
  dune_symbols, \* token_symbol of the rows of the Dune query result
  SYMBOLS,      \* the resolved symbol list
  existing_df,  \* the cache as loaded
  fetch_start_date,
  i, offset,    \* fetch_symbols_data: start of the batch, offset of the page
  all_data,     \* fetch_symbols_data: the records collected
  requests,     \* the page requests of the run: batch start, offset, response
  new_data,     \* the frame fetch_symbols_data returned
  combined_df,  \* pd.concat([existing_df, new_data])
  full_df,      \* the frame that is saved and uploaded
  writes,       \* times the run wrote results.csv
  uploads       \* the payloads the run posted to Dune

envVars == <<runs, today, DUNE_API_KEY, MARKETSTACK_API_KEY, db>>
fetchVars == <<i, offset, all_data, requests>>
frameVars == <<existing_df, fetch_start_date, new_data, combined_df, full_df>>
vars == <<pc, envVars, cache_file, cache0, dune_symbols, SYMBOLS, fetchVars,
          frameVars, writes, uploads>>

NoFile == [exists |-> FALSE, rows |-> <<>>]

\* A process that has just started: nothing computed yet.
Fresh ==
  /\ dune_symbols = <<>> /\ SYMBOLS = <<>>
  /\ existing_df = <<>> /\ fetch_start_date = START_DATE
  /\ i = 0 /\ offset = 0 /\ all_data = <<>> /\ requests = <<>>
  /\ new_data = <<>> /\ combined_df = <<>> /\ full_df = <<>>
  /\ writes = 0 /\ uploads = <<>>

\* ------------------------------------------------------ market-data source
\* The records the source can hold on day d: one stamp per day, none of a
\* later day.
SourceRecords(d) ==
  [date : {TicksPerDay * e : e \in 0..d}, symbol : Symbols, close : Closes]
\* The sets of at most n elements of S.
RECURSIVE SubsetsUpTo(_, _)
SubsetsUpTo(S, n) ==
  IF n = 0 THEN {{}}
  ELSE LET P == SubsetsUpTo(S, n - 1) IN P \cup {p \cup {x} : p \in P, x \in S}
\* What the source can hold on day d when it held D before: it only gains
\* records, and holds at most MaxSrc.
Sources(D, d) ==
  {D \cup X : X \in SubsetsUpTo(SourceRecords(d) \ D, MaxSrc - Cardinality(D))}

SymbolRank(s) == IF s = "A" THEN 1 ELSE 2
\* The source's order of two records: newest first.
Before(r, q) ==
  \/ r.date > q.date
  \/ r.date = q.date /\ SymbolRank(r.symbol) < SymbolRank(q.symbol)
  \/ r.date = q.date /\ r.symbol = q.symbol /\ r.close < q.close

RECURSIVE InOrder(_)
InOrder(S) ==
  IF S = {} THEN <<>>
  ELSE LET r == CHOOSE x \in S : \A y \in S \ {x} : Before(x, y)
       IN <<r>> \o InOrder(S \ {r})

\* What the source holds for date_from and symbols.
Matching(D, date_from, batch) ==
  InOrder({r \in D : r.symbol \in Range(batch) /\ r.date >= TicksPerDay * date_from})

Min(a, b) == IF a <= b THEN a ELSE b

\* The body of a 200 response: "data" is the page, "pagination.total" the
\* number of matching records.
Page(D, date_from, batch, lim, off) ==
  LET all == Matching(D, date_from, batch)
  IN [data |-> SubSeq(all, off + 1, Min(off + lim, Len(all))), total |-> Len(all)]

\* -------------------------------------------------------- symbol resolver
\* list(set(...)): the symbols of a set in any order, each once.
Orders(S) == {s \in [1..Cardinality(S) -> S] : Range(s) = S}

\* The resolver gone wrong: the two lists are joined and nothing is dropped.
ResolveSymbols_concat(dune) == {dune \o manual_symbols}

\* SYMBOLS = list(set(dune_symbols + manual_symbols))
ResolveSymbols(dune) == Orders(Range(dune \o manual_symbols))

\* ---------------------------------------------------------------- the run
Init ==
  /\ pc = "start"
  /\ runs = 1
  /\ today \in Days
  /\ DUNE_API_KEY \in BOOLEAN /\ MARKETSTACK_API_KEY \in BOOLEAN
  /\ db \in Sources({}, today)
  /\ cache_file = NoFile
  /\ cache0 = NoFile
  /\ Fresh

\* The check gone wrong: only the Dune key is looked at.
CheckKeys_dune_only ==
  /\ pc = "start"
  /\ pc' = IF ~DUNE_API_KEY THEN "fatal_config" ELSE "resolve"
  /\ UNCHANGED <<envVars, cache_file, cache0, dune_symbols, SYMBOLS, fetchVars,
                 frameVars, writes, uploads>>

\* if not DUNE_API_KEY: raise ...; if not MARKETSTACK_API_KEY: raise ...
CheckKeys ==
  /\ pc = "start"
  /\ pc' = IF ~DUNE_API_KEY \/ ~MARKETSTACK_API_KEY THEN "fatal_config" ELSE "resolve"
  /\ UNCHANGED <<envVars, cache_file, cache0, dune_symbols, SYMBOLS, fetchVars,
                 frameVars, writes, uploads>>

\* dune.get_latest_result(5617999) answers; SYMBOLS is built.
Resolve ==
  /\ pc = "resolve"
  /\ \E d \in UNION {[1..n -> Symbols] : n \in 0..MaxDune} :
       /\ dune_symbols' = d
       /\ SYMBOLS' \in ResolveSymbols(d)
  /\ pc' = "load"
  /\ UNCHANGED <<envVars, cache_file, cache0, fetchVars, frameVars, writes, uploads>>

\* dune.get_latest_result raises: nothing catches it.
ResolveFails ==
  /\ pc = "resolve"
  /\ pc' = "fatal_resolve"
  /\ UNCHANGED <<envVars, cache_file, cache0, dune_symbols, SYMBOLS, fetchVars,
                 frameVars, writes, uploads>>

\* existing_df["date"].max()
MaxDate(df) == CHOOSE d \in {r.date : r \in Range(df)} : \A r \in Range(df) : r.date <= d

\* last_date gone wrong: the dates of the cache are not looked at.
LastDate_epoch(file) == START_DATE

\* last_date of the __main__ block.
LastDate(file) == IF file.exists THEN MaxDate(file.rows) ELSE START_DATE

\* The start date gone wrong: the last cached day is asked for again.
FetchStart_same(file) == LastDate(file)

\* fetch_start_date = last_date + timedelta(days=1)
FetchStart(file) == LastDate(file) + 1

\* The cache is read (or found absent) and the fetch window is set.
LoadCache ==
  /\ pc = "load"
  /\ existing_df' = IF cache_file.exists THEN cache_file.rows ELSE <<>>
  /\ fetch_start_date' = FetchStart(cache_file)
  /\ pc' = "fetch"
  /\ UNCHANGED <<envVars, cache_file, cache0, dune_symbols, SYMBOLS, fetchVars,
                 new_data, combined_df, full_df, writes, uploads>>

\* symbols[i:i + batch_size]
Batch(symbols, k) == SubSeq(symbols, k + 1, Min(k + batch_size, Len(symbols)))

\* The last-page test gone wrong by one record.
LastPage_early(off, total) == off + limit >= total - 1

\* The last-page test gone: paging goes on until a page comes back empty.
LastPage_never(off, total) == FALSE

\* if offset + limit >= pagination.get("total", 0): break
LastPage(off, total) == off + limit >= total

\* requests.get(url) for the page at offset of the batch at i, and the
\* response: its status and, for a 200, its body.
Request(status, body) ==
  [i |-> i, offset |-> offset, date_from |-> fetch_start_date, status |-> status,
   data |-> body.data, total |-> body.total]
NoBody == [data |-> <<>>, total |-> 0]
ThisPage == Page(db, fetch_start_date, Batch(SYMBOLS, i), limit, offset)

fetchFrame == <<pc, envVars, cache_file, cache0, dune_symbols, SYMBOLS, frameVars,
                writes, uploads>>

\* The error branch gone wrong: the same page is requested again.
FetchError_retry ==
  /\ pc = "fetch"
  /\ i < Len(SYMBOLS)
  /\ requests' = Append(requests, Request(500, NoBody))
  /\ UNCHANGED <<i, offset, all_data, fetchFrame>>

\* if r.status_code != 200: print, break.  The for loop goes to the next batch.
FetchError ==
  /\ pc = "fetch"
  /\ i < Len(SYMBOLS)
  /\ requests' = Append(requests, Request(500, NoBody))
  /\ i' = i + batch_size /\ offset' = 0
  /\ UNCHANGED <<all_data, fetchFrame>>

\* if not data: break
FetchEmpty ==
  /\ pc = "fetch"
  /\ i < Len(SYMBOLS)
  /\ ThisPage.data = <<>>
  /\ requests' = Append(requests, Request(200, ThisPage))
  /\ i' = i + batch_size /\ offset' = 0
  /\ UNCHANGED <<all_data, fetchFrame>>

\* all_data.extend(data); the total is reached: break
FetchLastPage ==
  /\ pc = "fetch"
  /\ i < Len(SYMBOLS)
  /\ ThisPage.data # <<>>
  /\ LastPage(offset, ThisPage.total)
  /\ requests' = Append(requests, Request(200, ThisPage))
  /\ all_data' = all_data \o ThisPage.data
  /\ i' = i + batch_size /\ offset' = 0
  /\ UNCHANGED fetchFrame

\* all_data.extend(data); offset += limit
FetchNextPage ==
  /\ pc = "fetch"
  /\ i < Len(SYMBOLS)
  /\ ThisPage.data # <<>>
  /\ ~LastPage(offset, ThisPage.total)
  /\ requests' = Append(requests, Request(200, ThisPage))
  /\ all_data' = all_data \o ThisPage.data
  /\ offset' = offset + limit
  /\ UNCHANGED <<i, fetchFrame>>

\* pd.to_datetime(df["date"]).dt.date
to_date(stamp) == stamp \div TicksPerDay

\* The frame fetch_symbols_data returns: date, symbol, close of every record,
\* the date cut to the day (an empty frame when there is no record).
ToFrame(records) ==
  [k \in 1..Len(records) |->
     [date |-> to_date(records[k].date), symbol |-> records[k].symbol,
      close |-> records[k].close]]

\* The for loop is over: fetch_symbols_data returns.
FetchReturns ==
  /\ pc = "fetch"
  /\ i >= Len(SYMBOLS)
  /\ new_data' = ToFrame(all_data)
  /\ pc' = "fetched"
  /\ UNCHANGED <<envVars, cache_file, cache0, dune_symbols, SYMBOLS, fetchVars,
                 existing_df, fetch_start_date, combined_df, full_df, writes, uploads>>

\* The empty branch gone wrong: the loaded cache is filled through today
\* before it is uploaded.
NoNewData_filled ==
  /\ pc = "fetched"
  /\ new_data = <<>>
  /\ full_df' = fill_missing_dates(existing_df, SYMBOLS, today)
  /\ pc' = "upload"
  /\ UNCHANGED <<envVars, cache_file, cache0, dune_symbols, SYMBOLS, fetchVars,
                 existing_df, fetch_start_date, new_data, combined_df, writes, uploads>>

\* if new_data.empty: full_df = existing_df
NoNewData ==
  /\ pc = "fetched"
  /\ new_data = <<>>
  /\ full_df' = existing_df
  /\ pc' = "upload"
  /\ UNCHANGED <<envVars, cache_file, cache0, dune_symbols, SYMBOLS, fetchVars,
                 existing_df, fetch_start_date, new_data, combined_df, writes, uploads>>

\* to_csv gone wrong: the rows are appended to the file.
to_csv_append(file, df) == [exists |-> TRUE, rows |-> file.rows \o df]

\* full_df.to_csv(CSV_FILENAME, index=False): the file holds the rows of df
\* and nothing of what it held.
to_csv(file, df) == [exists |-> TRUE, rows |-> df]

\* The merge gone wrong: the frame goes to the upload before it is saved.
Reconcile_unsaved ==
  /\ pc = "fetched"
  /\ new_data # <<>>
  /\ combined_df' = existing_df \o new_data
  /\ full_df' = fill_missing_dates(combined_df', SYMBOLS, today)
  /\ pc' = "upload"
  /\ UNCHANGED <<envVars, cache_file, cache0, dune_symbols, SYMBOLS, fetchVars,
                 existing_df, fetch_start_date, new_data, writes, uploads>>

\* else: concat, fill_missing_dates, full_df.to_csv(CSV_FILENAME)
Reconcile ==
  /\ pc = "fetched"
  /\ new_data # <<>>
  /\ combined_df' = existing_df \o new_data
  /\ full_df' = fill_missing_dates(combined_df', SYMBOLS, today)
  /\ cache_file' = to_csv(cache_file, full_df')
  /\ writes' = writes + 1
  /\ pc' = "upload"
  /\ UNCHANGED <<envVars, cache0, dune_symbols, SYMBOLS, fetchVars,
                 existing_df, fetch_start_date, new_data, uploads>>

\* upload_to_dune_csv: one POST of the whole frame; a status other than 200
\* raises ValueError.
Upload ==
  /\ pc = "upload"
  /\ \/ /\ uploads' = Append(uploads, [payload |-> full_df, status |-> 200])
        /\ pc' = "done"
     \/ /\ uploads' = Append(uploads, [payload |-> full_df, status |-> 500])
        /\ pc' = "fatal_upload"
  /\ UNCHANGED <<envVars, cache_file, cache0, dune_symbols, SYMBOLS, fetchVars,
                 frameVars, writes>>

Ended == pc \in {"done", "fatal_config", "fatal_resolve", "fatal_upload"}

\* The process is gone, and with it everything but the file.
Exit ==
  /\ Ended
  /\ pc' = "exited"
  /\ cache0' = cache_file
  /\ dune_symbols' = <<>> /\ SYMBOLS' = <<>>
  /\ existing_df' = <<>> /\ fetch_start_date' = START_DATE
  /\ i' = 0 /\ offset' = 0 /\ all_data' = <<>> /\ requests' = <<>>
  /\ new_data' = <<>> /\ combined_df' = <<>> /\ full_df' = <<>>
  /\ writes' = 0 /\ uploads' = <<>>
  /\ UNCHANGED <<envVars, cache_file>>

\* The script is started again, the same day or a later one; the source may
\* have more records by then.
NextRun ==
  /\ pc = "exited"
  /\ runs < MaxRuns
  /\ runs' = runs + 1
  /\ today' \in today..MaxDay
  /\ DUNE_API_KEY' \in BOOLEAN /\ MARKETSTACK_API_KEY' \in BOOLEAN
  /\ db' \in Sources(db, today')
  /\ pc' = "start"
  /\ UNCHANGED <<cache_file, cache0, dune_symbols, SYMBOLS, fetchVars, frameVars,
                 writes, uploads>>

Next ==
  \/ CheckKeys \/ Resolve \/ ResolveFails \/ LoadCache
  \/ FetchError \/ FetchEmpty \/ FetchLastPage \/ FetchNextPage \/ FetchReturns
  \/ NoNewData \/ Reconcile \/ Upload \/ Exit \/ NextRun

Spec == Init /\ [][Next]_vars

\* One step of fetch_symbols_data: a page answered, or the return.
FetchStep ==
  FetchError \/ FetchEmpty \/ FetchLastPage \/ FetchNextPage \/ FetchReturns

\* The runs, every request of which is answered: the fetcher is never stuck
\* waiting in requests.get.
SpecFair == Spec /\ WF_vars(FetchStep)

\* ------------------------------------------- a run cut short while it writes
\* full_df.to_csv(CSV_FILENAME) opens results.csv for writing, which empties
\* it, and writes the rows in order; the process is killed before the last
\* row is on disk.  The file is left with the rows written so far.
WriteInterrupted ==
  /\ pc = "fetched"
  /\ new_data # <<>>
  /\ combined_df' = existing_df \o new_data
  /\ full_df' = fill_missing_dates(combined_df', SYMBOLS, today)
  /\ \E n \in 0..(Len(full_df') - 1) :
       cache_file' = to_csv(cache_file, SubSeq(full_df', 1, n))
  /\ pc' = "killed"
  /\ UNCHANGED <<envVars, cache0, dune_symbols, SYMBOLS, fetchVars,
                 existing_df, fetch_start_date, new_data, writes, uploads>>

NextKill == Next \/ WriteInterrupted

\* The runs, any of which may be killed while it writes the cache.
SpecKill == Init /\ [][NextKill]_vars

\* --------------------------------------------- the resolver on its own
\* The Dune query has answered with any list of at most MaxRemote symbols,
\* repeats included.
InitResolve ==
  /\ pc = "resolving"
  /\ runs = 1
  /\ today = START_DATE
  /\ DUNE_API_KEY = TRUE /\ MARKETSTACK_API_KEY = TRUE
  /\ db = {}
  /\ cache_file = NoFile /\ cache0 = NoFile
  /\ dune_symbols \in UNION {[1..n -> Symbols] : n \in 0..MaxRemote}
  /\ SYMBOLS = <<>>
  /\ existing_df = <<>> /\ fetch_start_date = START_DATE
  /\ i = 0 /\ offset = 0 /\ all_data = <<>> /\ requests = <<>>
  /\ new_data = <<>> /\ combined_df = <<>> /\ full_df = <<>>
  /\ writes = 0 /\ uploads = <<>>

\* SYMBOLS = list(set(dune_symbols + manual_symbols))
ResolveList ==
  /\ pc = "resolving"
  /\ SYMBOLS' \in ResolveSymbols(dune_symbols)
  /\ pc' = "resolved"
  /\ UNCHANGED <<envVars, cache_file, cache0, dune_symbols, fetchVars, frameVars,
                 writes, uploads>>

SpecResolve == InitResolve /\ [][ResolveList]_vars

\* ------------------------------------------- the reconciler on its own
\* Inputs of fill_missing_dates: any frame of at most MaxRows rows (the cache
\* and the new rows together), any symbol list the resolver can give, any day.
InitFill ==
  /\ pc = "fill"
  /\ runs = 1
  /\ today \in Days
  /\ DUNE_API_KEY = TRUE /\ MARKETSTACK_API_KEY = TRUE
  /\ db = {}
  /\ cache_file = NoFile /\ cache0 = NoFile
  /\ dune_symbols = <<>>
  /\ SYMBOLS \in UNION {ResolveSymbols(d) : d \in [1..1 -> Symbols]}
  /\ existing_df = <<>> /\ fetch_start_date = START_DATE
  /\ i = 0 /\ offset = 0 /\ all_data = <<>> /\ requests = <<>>
  /\ new_data = <<>>
  /\ combined_df \in Frames(MaxRows)
  /\ full_df = <<>>
  /\ writes = 0 /\ uploads = <<>>

fillFrame == <<envVars, cache_file, cache0, dune_symbols, SYMBOLS, fetchVars,
               existing_df, fetch_start_date, new_data, writes, uploads>>

\* full_df = fill_missing_dates(combined_df, SYMBOLS)
Fill ==
  /\ pc = "fill"
  /\ full_df' = fill_missing_dates(combined_df, SYMBOLS, today)
  /\ pc' = "filled"
  /\ UNCHANGED <<fillFrame, combined_df>>

\* The reconciler applied to its own output with no new row, on the same day.
Refill ==
  /\ pc = "filled"
  /\ combined_df' = full_df
  /\ full_df' = fill_missing_dates(full_df, SYMBOLS, today)
  /\ pc' = "refilled"
  /\ UNCHANGED fillFrame

NextFill == Fill \/ Refill

SpecFill == InitFill /\ [][NextFill]_vars

\* ------------------------------------------------- properties of the reconciler
\* The rows of df for (d, s), by position.
At(df, d, s) == {k \in 1..Len(df) : df[k].date = d /\ df[k].symbol = s}
ClosesAt(df, d, s) == {df[k].close : k \in At(df, d, s)}
SymbolsOf(df) == {r.symbol : r \in Range(df)}
\* first_date(S): the minimum date of s in df.
FirstDate(df, s) ==
  CHOOSE d \in Days : At(df, d, s) # {} /\ \A e \in 0..(d - 1) : At(df, e, s) = {}
\* The same rows, each as many times.
SameRows(a, b) ==
  \A r \in Range(a) \cup Range(b) :
     Cardinality({k \in 1..Len(a) : a[k] = r}) = Cardinality({k \in 1..Len(b) : b[k] = r})

\* C1: for every symbol S in the reconciler's output and every date D with
\* first_date(S) <= D <= today, the output holds exactly one row for (D, S).
C1_GapFreeExactlyOne ==
  pc = "filled" =>
    \A s \in SymbolsOf(full_df) : \A d \in FirstDate(combined_df, s)..today :
       Cardinality(At(full_df, d, s)) = 1

\* C2: in the reconciler's output a (D, S) the input has no row for carries the
\* close of the latest earlier date that has a row for S in the output, and a
\* (D, S) the input has rows for keeps exactly the input's rows.
C2_ForwardFill ==
  pc = "filled" =>
    \A s \in Symbols : \A d \in Days :
       At(full_df, d, s) # {} =>
         IF At(combined_df, d, s) # {}
         THEN /\ ClosesAt(full_df, d, s) = ClosesAt(combined_df, d, s)
              /\ Cardinality(At(full_df, d, s)) = Cardinality(At(combined_df, d, s))
         ELSE /\ Cardinality(At(full_df, d, s)) = 1
              /\ \E p \in 0..(d - 1) :
                    /\ At(full_df, p, s) # {}
                    /\ \A e \in (p + 1)..(d - 1) : At(full_df, e, s) = {}
                    /\ ClosesAt(full_df, d, s) =
                         {full_df[CHOOSE k \in At(full_df, p, s) :
                                    \A j \in At(full_df, p, s) : j <= k].close}

\* C2's case: closes 1 and 2 two days apart, and the day between filled.
C2_Witness ==
  /\ pc = "filled"
  /\ \E s \in Symbols :
       /\ ClosesAt(combined_df, 0, s) = {1}
       /\ At(combined_df, 1, s) = {}
       /\ ClosesAt(combined_df, 2, s) = {2}
       /\ ClosesAt(full_df, 1, s) = {1}
       /\ ClosesAt(full_df, 2, s) = {2}

\* C3: the reconciler applied to its own output, with no new row and on the
\* same day, returns the same rows.
C3_Idempotent == pc = "refilled" => SameRows(full_df, combined_df)

\* C3's case: an output with a filled day and two symbols, reconciled again.
C3_Witness ==
  /\ pc = "refilled"
  /\ SymbolsOf(combined_df) = Symbols
  /\ Len(combined_df) > MaxRows

\* ----------------------------------------------------- properties of a run
Fetching == pc = "fetch"
\* fetch_symbols_data has returned.
Fetched == pc \in {"fetched", "upload", "done", "fatal_upload"}
\* The merge step of the __main__ block is over.
Merged == pc \in {"upload", "done", "fatal_upload"}
Failed(k) == requests[k].status # 200

\* The rows of the 200 responses of the first n requests, in order.
RECURSIVE Collected(_)
Collected(n) == IF n = 0 THEN <<>> ELSE Collected(n - 1) \o requests[n].data

\* The batch starts of range(0, len(symbols), batch_size).
BatchStarts == {k \in 0..(Len(SYMBOLS) - 1) : k % batch_size = 0}

\* C4: a non-success page response is recovered locally: no request for the
\* same batch follows it (neither that page again nor a later page), the rows
\* of all earlier pages stay in the fetcher's output, every batch is still
\* requested, and the run goes on to the merge and the upload.
C4_PageFailureLocal ==
  /\ \A k \in 1..Len(requests) :
       Failed(k) => \A j \in (k + 1)..Len(requests) : requests[j].i # requests[k].i
  /\ all_data = Collected(Len(requests))
  /\ Fetched =>
       /\ new_data = ToFrame(Collected(Len(requests)))
       /\ \A b \in BatchStarts : \E k \in 1..Len(requests) : requests[k].i = b
  /\ (\E k \in 1..Len(requests) : Failed(k)) =>
       pc \in {"fetch", "fetched", "upload", "done", "fatal_upload"}

\* C4's case: page 2 of the first batch fails, page 1's rows are in the
\* output, the second batch is requested after it, and the run uploads.
C4_Witness ==
  /\ pc = "done"
  /\ Len(requests) = 3
  /\ requests[1].i = 0 /\ requests[1].status = 200 /\ Len(requests[1].data) = limit
  /\ requests[2].i = 0 /\ requests[2].offset = limit /\ Failed(2)
  /\ requests[3].i = batch_size
  /\ new_data = ToFrame(requests[1].data)
  /\ uploads # <<>>

\* The records the source holds for the symbols from the start date on.
Held == {r \in db : r.symbol \in Range(SYMBOLS)
                    /\ to_date(r.date) >= fetch_start_date}

\* C5: within a batch the pages are requested at offsets 0, limit, 2*limit, ...,
\* each after a non-empty 200 page; paging of a batch stops only after a
\* non-success response, an empty page or a page that reaches the total; and
\* when every response is a success the output holds every record the source
\* holds for the symbols from the start date on, each once.
C5_PaginationComplete ==
  /\ \A k \in 1..Len(requests) :
       /\ requests[k].offset % limit = 0
       /\ requests[k].offset > 0 =>
            /\ k > 1
            /\ requests[k - 1].i = requests[k].i
            /\ requests[k - 1].offset = requests[k].offset - limit
            /\ requests[k - 1].status = 200
            /\ requests[k - 1].data # <<>>
       /\ (\/ (k < Len(requests) /\ requests[k + 1].i # requests[k].i)
           \/ (k = Len(requests) /\ (Fetched \/ i # requests[k].i))) =>
            \/ Failed(k)
            \/ requests[k].data = <<>>
            \/ requests[k].offset + limit >= requests[k].total
  /\ (Fetched /\ \A k \in 1..Len(requests) : ~Failed(k)) =>
       /\ Len(new_data) = Cardinality(Held)
       /\ \A r \in Held :
            \E k \in 1..Len(new_data) :
               new_data[k] = [date |-> to_date(r.date), symbol |-> r.symbol,
                              close |-> r.close]

\* C5's case: a batch of two pages, every response a success, three rows out.
C5_Witness ==
  /\ Fetched
  /\ \A k \in 1..Len(requests) : ~Failed(k)
  /\ \E k \in 1..Len(requests) : requests[k].offset = limit
  /\ Len(new_data) = limit + 1

\* C6: the start date of a run is the maximum date of the cache plus one day
\* when the cache exists, and START_DATE when it does not; every request of
\* the run carries it.
C6_StartDate ==
  (Fetching \/ Fetched) =>
    /\ fetch_start_date = IF cache0.exists THEN MaxDate(cache0.rows) + 1 ELSE START_DATE
    /\ \A k \in 1..Len(requests) : requests[k].date_from = fetch_start_date

\* Every day from s's first day in df through last has a row for s in df.
Contiguous(df, s, last) == \A d \in FirstDate(df, s)..last : At(df, d, s) # {}

\* C7 as claimed: whatever a run uploads holds, for every symbol in it, a
\* row for every day from the symbol's first day through today.
C7_PublishedThroughToday ==
  \A u \in 1..Len(uploads) :
     \A s \in SymbolsOf(uploads[u].payload) : Contiguous(uploads[u].payload, s, today)

\* C7 as amended: what a run uploads holds, for every symbol in it, a row for
\* every day from the symbol's first day in cache and fetched rows through
\* today when the run fetched rows, and through the last day of the loaded
\* cache when it fetched none.
C7_PublishedReconciled ==
  \A u \in 1..Len(uploads) :
     LET payload == uploads[u].payload
     IN \A s \in SymbolsOf(payload) :
          /\ FirstDate(payload, s) = FirstDate(existing_df \o new_data, s)
          /\ Contiguous(payload, s,
                        IF new_data # <<>> THEN today ELSE MaxDate(existing_df))

\* C7's case: a run that fetched rows uploads a day no row was fetched or
\* cached for.
C7_Witness ==
  /\ pc = "done"
  /\ new_data # <<>>
  /\ \E s \in Symbols :
       /\ At(existing_df \o new_data, today, s) = {}
       /\ At(uploads[1].payload, today, s) # {}

\* C8: a run that fetched rows has written the reconciled series to the cache
\* file when it sends the upload; it sends one upload; a non-success upload
\* ends the run with an error, and the cache on disk then holds every row the
\* run fetched.
C8_WriteBeforePublish ==
  /\ [][Len(uploads') > Len(uploads) =>
          /\ uploads = <<>>
          /\ new_data # <<>> =>
               /\ writes = 1
               /\ cache_file = [exists |-> TRUE, rows |-> full_df]
               /\ cache_file' = cache_file
               /\ uploads'[1].payload = cache_file.rows]_vars
  /\ [](/\ Len(uploads) <= 1
        /\ (uploads # <<>> /\ uploads[1].status # 200) <=> pc = "fatal_upload"
        /\ (uploads # <<>> /\ uploads[1].status = 200) <=> pc = "done"
        /\ pc = "fatal_upload" =>
             \A r \in Range(new_data) : r \in Range(cache_file.rows))

\* C8's case: the upload of a run that fetched rows fails, the cache file
\* holds them.
C8_Witness ==
  /\ pc = "fatal_upload"
  /\ new_data # <<>>
  /\ cache0.exists
  /\ cache_file # cache0

\* C9: the run writes the cache file exactly when the fetch returned a row,
\* and then once, with the reconciled series of loaded cache and fetched rows
\* as its whole content; otherwise the file stays as it was.
C9_CacheWrite ==
  /\ ~Merged => writes = 0 /\ cache_file = cache0
  /\ Merged =>
       IF new_data # <<>>
       THEN /\ writes = 1
            /\ cache_file =
                 [exists |-> TRUE,
                  rows |-> fill_missing_dates(
                             (IF cache0.exists THEN cache0.rows ELSE <<>>) \o new_data,
                             SYMBOLS, today)]
       ELSE writes = 0 /\ cache_file = cache0

\* C9's case: a run finds a cache, fetches rows, and leaves a file that does
\* not start with the old content.
C9_Witness ==
  /\ Merged
  /\ cache0.exists
  /\ new_data # <<>>
  /\ writes = 1
  /\ SubSeq(cache_file.rows, 1, Len(cache0.rows)) # cache0.rows

\* C10: when the fetch returns no row the run goes on to the upload without
\* touching the cache file, and uploads the cache as loaded.
C10_EmptyResult ==
  /\ [][(pc = "fetched" /\ new_data = <<>>) =>
          pc' = "upload" /\ cache_file' = cache_file]_vars
  /\ []((new_data = <<>> /\ uploads # <<>>) =>
          uploads[1].payload = IF cache0.exists THEN cache0.rows ELSE <<>>)

\* C10's case: a cache that ends before today, no row fetched, the cache
\* uploaded as it is.
C10_Witness ==
  /\ pc = "done"
  /\ requests # <<>>
  /\ new_data = <<>>
  /\ cache0.exists
  /\ MaxDate(cache0.rows) < today
  /\ uploads[1].payload = cache0.rows

\* ------------------------------------------------- properties across runs
\* At most one row per (date, symbol).
NoDup(df) == \A d \in Days : \A s \in Symbols : Cardinality(At(df, d, s)) <= 1
\* The source holds at most one record per (date, symbol).
SingleValued(D) ==
  \A r \in D : \A q \in D : (r.date = q.date /\ r.symbol = q.symbol) => r = q

\* C11: in any sequence of runs that starts from an absent cache, with a
\* source that holds at most one record per (date, symbol), the cache file,
\* the frames of the run and every payload uploaded hold at most one row per
\* (date, symbol).
C11_UniqueAcrossRuns ==
  SingleValued(db) =>
    /\ NoDup(cache_file.rows)
    /\ NoDup(existing_df \o new_data)
    /\ NoDup(full_df)
    /\ \A u \in 1..Len(uploads) : NoDup(uploads[u].payload)

\* C11's case: the second run finds a cache, fetches rows for a symbol the
\* cache holds, and uploads the merged series.
C11_Witness ==
  /\ pc = "done"
  /\ runs = 2
  /\ SingleValued(db)
  /\ cache0.exists
  /\ \E s \in SymbolsOf(cache0.rows) : s \in SymbolsOf(new_data)
  /\ Len(uploads[1].payload) > Len(cache0.rows)

\* C12: the reconciler's output holds no row of a symbol dated before that
\* symbol's first row in the input, no row with a missing close, and no row
\* at all for a symbol of the symbol list that has no row in the input.
C12_NoBackfill ==
  pc = "filled" =>
    /\ \A k \in 1..Len(full_df) :
         /\ full_df[k].close \in Closes
         /\ At(combined_df, full_df[k].date, full_df[k].symbol) # {}
            \/ \E e \in 0..(full_df[k].date - 1) :
                  At(combined_df, e, full_df[k].symbol) # {}
    /\ \A s \in Range(SYMBOLS) :
         s \notin SymbolsOf(combined_df) => s \notin SymbolsOf(full_df)

\* C12's case: two symbols in the list, one without any row, the other first
\* seen after START_DATE and filled up to a later day.
C12_Witness ==
  /\ pc = "filled"
  /\ Len(SYMBOLS) = 2
  /\ \E s \in Range(SYMBOLS) : \E t \in Range(SYMBOLS) :
       /\ s \notin SymbolsOf(combined_df)
       /\ t \in SymbolsOf(combined_df)
       /\ FirstDate(combined_df, t) > START_DATE
       /\ FirstDate(combined_df, t) < today
       /\ Len(full_df) > Len(combined_df)

\* One of the two credentials is not set.
KeyMissing == ~DUNE_API_KEY \/ ~MARKETSTACK_API_KEY

\* C13: a run started with a credential missing ends with the configuration
\* error as its first step: it never reaches the Dune query, the cache, the
\* market-data requests or the upload, and the cache file stays as it was.
C13_ConfigErrorFirst ==
  /\ [][(pc = "start" /\ KeyMissing) =>
          pc' = "fatal_config" /\ cache_file' = cache_file]_vars
  /\ [](KeyMissing =>
          /\ pc \in {"start", "fatal_config", "exited"}
          /\ Fresh
          /\ cache_file = cache0)

\* C13's case: a run with only the MarketStack key missing, a cache on disk
\* and records at the source ends with the configuration error.
C13_Witness ==
  /\ pc = "fatal_config"
  /\ DUNE_API_KEY /\ ~MARKETSTACK_API_KEY
  /\ cache_file.exists
  /\ db # {}

\* C14: at every moment, a run killed during the write included, the cache
\* file is either the file as it was when the run started or the complete
\* reconciled series of the run.
C14_AtomicWriteBack ==
  \/ cache_file = cache0
  \/ /\ new_data # <<>>
     /\ cache_file = [exists |-> TRUE,
                      rows |-> fill_missing_dates(existing_df \o new_data, SYMBOLS, today)]

\* C15: the resolved list holds each symbol once, and its symbols are those
\* of the remote list and of the manual list together, also when the two
\* lists share a symbol or the remote list repeats one.
C15_Deduplicated ==
  pc = "resolved" =>
    /\ \A j \in 1..Len(SYMBOLS) : \A k \in 1..Len(SYMBOLS) :
          SYMBOLS[j] = SYMBOLS[k] => j = k
    /\ Range(SYMBOLS) = Range(dune_symbols) \cup Range(manual_symbols)

\* C15's case: the remote list repeats a symbol and holds a manual symbol.
C15_Witness ==
  /\ pc = "resolved"
  /\ \E j \in 1..Len(dune_symbols) : \E k \in 1..Len(dune_symbols) :
        j # k /\ dune_symbols[j] = dune_symbols[k]
  /\ \E j \in 1..Len(dune_symbols) : dune_symbols[j] \in Range(manual_symbols)
  /\ Len(SYMBOLS) = 2

\* C16: every row the cache file holds when a run starts is still in the
\* file, with the same close, whatever the run does and whatever its symbol
\* list is.
C16_CacheRetention ==
  \A r \in Range(cache0.rows) : r \in Range(cache_file.rows)

\* The records the source holds that a request of the run was answered with.
Requested == UNION {Range(requests[k].data) : k \in 1..Len(requests)}

\* C17: a run that fetched a row writes a cache whose maximum date is the
\* day of the run; a run that finds a cache asks only for dates after the
\* cache's maximum date, so no record dated up to it is ever in a response,
\* whenever the source got it; and at every (date, symbol) up to that date
\* the cache file keeps the closes it had and takes no other.
C17_FilledDaysAdvanceWindow ==
  /\ (Merged /\ new_data # <<>>) => MaxDate(cache_file.rows) = today
  /\ cache0.exists =>
       LET T == MaxDate(cache0.rows)
       IN /\ T <= today
          /\ (Fetching \/ Fetched) =>
               /\ fetch_start_date = T + 1
               /\ \A k \in 1..Len(requests) : requests[k].date_from = T + 1
               /\ \A r \in Requested : to_date(r.date) > T
          /\ \A s \in Symbols : \A d \in 0..T :
               /\ ClosesAt(cache_file.rows, d, s) \subseteq ClosesAt(cache0.rows, d, s)
               /\ (Merged /\ s \in Range(SYMBOLS)) =>
                    ClosesAt(cache_file.rows, d, s) = ClosesAt(cache0.rows, d, s)

\* C17's case: the cache holds a forward-filled close for a day; by the
\* next run the source has a record of that day and symbol with another
\* close; the run asks for the symbol, never gets the record, and the file
\* still holds the filled close.
C17_Witness ==
  /\ pc = "done"
  /\ cache0.exists
  /\ requests # <<>>
  /\ \E r \in db :
       /\ r.symbol \in Range(SYMBOLS)
       /\ to_date(r.date) <= MaxDate(cache0.rows)
       /\ r \notin Requested
       /\ ClosesAt(cache_file.rows, to_date(r.date), r.symbol) # {}
       /\ r.close \notin ClosesAt(cache_file.rows, to_date(r.date), r.symbol)

\* The requests of the run for the batch that starts at b.
RequestsOf(b) == {k \in 1..Len(requests) : requests[k].i = b}
\* The total the source reports for the batch that starts at b.
Total(b) == Len(Matching(db, fetch_start_date, Batch(SYMBOLS, b)))
\* ceil(t / l)
Ceil(t, l) == (t + l - 1) \div l
Max(a, b) == IF a >= b THEN a ELSE b

\* C18: the requests of a batch are at offsets 0, limit, 2*limit, ... in this
\* order, so no (batch, offset) is requested twice; every 200 response
\* reports the batch's total T, and the batch gets at most
\* max(1, ceil(T / limit)) requests; the batches are those of the symbol list
\* and are requested in order; and the fetch always comes to its return.
C18_FetchTerminates ==
  /\ [](/\ \A k \in 1..Len(requests) :
             /\ requests[k].i \in BatchStarts
             /\ requests[k].offset =
                  limit * Cardinality({j \in RequestsOf(requests[k].i) : j < k})
             /\ requests[k].status = 200 => requests[k].total = Total(requests[k].i)
             /\ \A j \in 1..(k - 1) : requests[j].i <= requests[k].i
        /\ \A b \in BatchStarts :
             Cardinality(RequestsOf(b)) <= Max(1, Ceil(Total(b), limit)))
  /\ (Fetching ~> Fetched)

\* C18's case: a batch whose total is more than one page gets its two
\* requests, the next batch one, and the fetch has returned.
C18_Witness ==
  /\ Fetched
  /\ Len(SYMBOLS) = 2
  /\ \E b \in BatchStarts :
       /\ Total(b) > limit
       /\ Cardinality(RequestsOf(b)) = Ceil(Total(b), limit)
  /\ Len(requests) = 3

====
